---- MODULE Spec2Model ----
(***************************************************************************)
(* Model of the sequential questionnaire chatbot backend.                  *)
(*                                                                         *)
(* The repository holds two versions of the server: src/server.js (five    *)
(* questions, the greeting is sent when the session's history is empty)    *)
(* and src/unnamed/part_000 (fourteen questions, the greeting is sent when *)
(* the message is 'start' or isInitial is set).  The variable `variant`    *)
(* says which of the two files a behaviour is a run of; everything the two *)
(* files share is modelled once.                                           *)
(*                                                                         *)
(* JavaScript values: a string is a TLA+ string; `undefined` and `null`    *)
(* are the reserved strings Undefined and Null, which no input contains.   *)
(* An object with string keys (collectedData) is the sequence of its own   *)
(* [key, value] entries in the order JSON.stringify and res.json write     *)
(* them in: the keys that are array indices first, in ascending numeric    *)
(* order, then the other keys in the order they were first assigned.  An   *)
(* assignment converts its key to a string, and an assignment of a string  *)
(* to the key '__proto__' creates no entry.  A history turn whose content  *)
(* is a string is [role, content]; one whose content is an array of blocks *)
(* is [role, blocks].                                                      *)
(***************************************************************************)
EXTENDS Integers, Sequences, FiniteSets, TLC

VARIABLES
    variant,    \* the source file this behaviour runs: "server.js" or "part_000"
    sessions,   \* const sessions = new Map(): session id -> session object
    pending,    \* request id -> handler suspended at `await anthropic.messages.create`
    nRequests,  \* how many requests the server has accepted so far
    lastStep,   \* observation: the handler step taken last, and its response if it sent one
    state,      \* a ConversationState whose methods are called directly (SpecClass)
    supplied,   \* observation: the values handed to state.storeResponse, in order
    returned,   \* observation: what the last direct method call returned
    alone       \* a second server, sent only the requests for session Observed and
                \* given the same Gateway answers: its Map and its last step's outcome

vars == <<variant, sessions, pending, nRequests, lastStep, state, supplied, returned, alone>>

---------------------------------------------------------------------------
(* Bounds of the model *)

\* /chat/structured requests accepted in one behaviour of Spec
MaxRequests == 2
\* /chat/tools requests accepted in one behaviour of SpecTools
MaxToolTurns == 1
\* tool-request responses the Gateway gives within one tool-mode turn
MaxToolRounds == 2
\* requests of either kind accepted in one behaviour of SpecServer
MaxServerRequests == 2
\* tool-request responses within one tool-mode turn of SpecServer
MaxServerToolRounds == 1
\* direct storeResponse calls made after the questionnaire is complete
MaxExtraCalls == 1

---------------------------------------------------------------------------
(* JavaScript values and string functions *)

Undefined == "<undefined>"
Null == "<null>"

\* `${v}` in a template literal
Interpolate(v) ==
    IF v = Undefined THEN "undefined" ELSE IF v = Null THEN "null" ELSE v

\* String.prototype.startsWith
startsWith(s, prefix) ==
    /\ Len(s) >= Len(prefix)
    /\ SubSeq(s, 1, Len(prefix)) = prefix

\* String.prototype.includes
includes(s, part) ==
    \E i \in 1..(Len(s) + 1) :
        /\ i + Len(part) - 1 <= Len(s)
        /\ SubSeq(s, i, i + Len(part) - 1) = part

\* position of the first separator in s, 0 when there is none
IndexOf(s, sep) ==
    IF \E i \in 1..Len(s) : SubSeq(s, i, i) = sep
    THEN CHOOSE i \in 1..Len(s) :
            /\ SubSeq(s, i, i) = sep
            /\ \A j \in 1..(i - 1) : SubSeq(s, j, j) # sep
    ELSE 0

\* String.prototype.split with a one-character separator
RECURSIVE split(_, _)
split(s, sep) ==
    LET i == IndexOf(s, sep) IN
    IF i = 0 THEN <<s>>
    ELSE <<SubSeq(s, 1, i - 1)>> \o split(SubSeq(s, i + 1, Len(s)), sep)

\* const [_, field, value] = parts: the element at position i, undefined past the end
Destructure(parts, i) == IF i <= Len(parts) THEN parts[i] ELSE Undefined

---------------------------------------------------------------------------
(* Objects with string keys, in property order *)

EmptyObject == <<>>

Keys(obj) == [i \in 1..Len(obj) |-> obj[i].key]

KeySet(obj) == {obj[i].key : i \in 1..Len(obj)}

\* obj[k] converts k to a string first: undefined names the key 'undefined'
PropertyKey(k) == Interpolate(k)

Digits == <<"0", "1", "2", "3", "4", "5", "6", "7", "8", "9">>

IsDigit(c) == \E d \in 1..Len(Digits) : Digits[d] = c

DigitOf(c) == (CHOOSE d \in 1..Len(Digits) : Digits[d] = c) - 1

\* the decimal numerals without a leading zero
IsCanonicalNumeral(k) ==
    /\ Len(k) >= 1
    /\ \A i \in 1..Len(k) : IsDigit(SubSeq(k, i, i))
    /\ Len(k) > 1 => SubSeq(k, 1, 1) # "0"

\* a < b as numbers, for two canonical numerals
NumeralLess(a, b) ==
    IF Len(a) # Len(b) THEN Len(a) < Len(b)
    ELSE \E i \in 1..Len(a) :
            /\ SubSeq(a, 1, i - 1) = SubSeq(b, 1, i - 1)
            /\ DigitOf(SubSeq(a, i, i)) < DigitOf(SubSeq(b, i, i))

\* the largest array index, 2^32 - 2
MaxArrayIndex == "4294967294"

\* the keys an object lists first, in numeric order
IsArrayIndex(k) == IsCanonicalNumeral(k) /\ ~NumeralLess(MaxArrayIndex, k)

\* the object has an own property k
HasKey(obj, k) == PropertyKey(k) \in KeySet(obj)

\* what obj['__proto__'] reads on an object literal: Object.prototype
ObjectPrototype == "<Object.prototype>"

\* obj[k]: the own property's value; without one, Object.prototype for
\* '__proto__' and undefined for any other key of the model
Get(obj, k) ==
    IF HasKey(obj, k)
    THEN obj[CHOOSE i \in 1..Len(obj) : obj[i].key = PropertyKey(k)].value
    ELSE IF PropertyKey(k) = "__proto__" THEN ObjectPrototype
    ELSE Undefined

\* where a new key goes: an array index after the smaller indices, any
\* other key last
PlaceOf(obj, key) ==
    IF IsArrayIndex(key)
    THEN Cardinality({i \in 1..Len(obj) :
            IsArrayIndex(obj[i].key) /\ NumeralLess(obj[i].key, key)})
    ELSE Len(obj)

\* obj[k] = v for a value v that is a string or undefined: the setter of
\* '__proto__' ignores such a value, an existing key keeps its place, a new
\* key goes to its place in the property order
Put(obj, k, v) ==
    LET key == PropertyKey(k)
        entry == [key |-> key, value |-> v]
    IN  IF key = "__proto__" THEN obj
        ELSE IF HasKey(obj, key)
        THEN [i \in 1..Len(obj) |-> IF obj[i].key = key THEN entry ELSE obj[i]]
        ELSE SubSeq(obj, 1, PlaceOf(obj, key)) \o <<entry>>
             \o SubSeq(obj, PlaceOf(obj, key) + 1, Len(obj))

\* JSON.stringify drops the entries whose value is undefined
RECURSIVE Defined(_)
Defined(obj) ==
    IF obj = <<>> THEN <<>>
    ELSE IF Head(obj).value = Undefined THEN Defined(Tail(obj))
    ELSE <<Head(obj)>> \o Defined(Tail(obj))

RECURSIVE JoinEntries(_, _, _)
JoinEntries(obj, colon, comma) ==
    IF obj = <<>> THEN ""
    ELSE "\"" \o Head(obj).key \o "\"" \o colon \o "\"" \o Head(obj).value \o "\""
         \o (IF Tail(obj) = <<>> THEN "" ELSE comma)
         \o JoinEntries(Tail(obj), colon, comma)

\* JSON.stringify(obj) of an object of strings (no character of the model's
\* strings needs escaping)
JSONstringify(obj) == "{" \o JoinEntries(Defined(obj), ":", ",") \o "}"

\* JSON.stringify(obj, null, 2)
JSONstringifyPretty(obj) ==
    IF Defined(obj) = <<>> THEN "{}"
    ELSE "{\n  " \o JoinEntries(Defined(obj), ": ", ",\n  ") \o "\n}"

---------------------------------------------------------------------------
(* The field catalog *)

Variants == {"server.js", "part_000"}

Step(id, question) == [id |-> id, question |-> question, field |-> id]

\* this.steps of src/server.js
stepsMinimal == <<
    Step("name", "What is your name?"),
    Step("age", "What is your age?"),
    Step("income", "What is your annual income?"),
    Step("cash", "How much cash do you have?"),
    Step("retirement", "How much do you have in your retirement account?") >>

\* this.steps of src/unnamed/part_000
stepsRich == <<
    Step("name", "What is your name?"),
    Step("age", "What is your age?"),
    Step("income", "What is your annual income?"),
    Step("cash", "How much cash do you have? This can include checking, savings, CD's and Money Market accounts"),
    Step("brokerage", "How much in your brokerage account(s)? This can include stocks and mutual funds"),
    Step("retirement", "How much do you have in your retirement account? This includes 401k, 403b, 457b, TSP, Traditional IRA, Roth IRA, SEP IRA, and SIMPLE IRA."),
    Step("pension", "How much do you have in your pension?"),
    Step("annuities", "How much do you have in annuities?"),
    Step("properties", "What is the total market value of all properties you own? Do not deduct the mortgage(s) value"),
    Step("mortgage", "What is your current mortgage(s) balance?"),
    Step("autoLoan", "Do you currently have any outstanding auto loans? If so, please enter the total amount owed."),
    Step("studentLoans", "Do you currently have any outstanding student loans? If so, please enter the total amount owed."),
    Step("otherDebts", "Do you have any other outstanding debts? If so, please enter the total amount owed."),
    Step("otherAssets", "Do you own any other assets such as art, collectibles, or antiques? If so, please enter their total estimated value.") >>

stepsOf(v) == IF v = "server.js" THEN stepsMinimal ELSE stepsRich

\* this.steps of the running server
steps == stepsOf(variant)

---------------------------------------------------------------------------
(* class ConversationState *)

\* constructor()
NewConversationState ==
    [class |-> "ConversationState",
     currentStep |-> 0,
     collectedData |-> EmptyObject,
     conversationHistory |-> <<>>]

\* a comparison that lets the cursor pass the end of the catalog
isDataCollectionCompleteStrict(s) == s.currentStep > Len(steps)

\* a comparison that takes the questionnaire for complete one answer early
isDataCollectionCompleteEarly(s) == s.currentStep >= Len(steps) - 1

\* isDataCollectionComplete()
isDataCollectionComplete(s) == s.currentStep >= Len(steps)

\* a getCurrentQuestion that reads this.steps[this.currentStep - 1], the
\* question just answered
getCurrentQuestionJustAnswered(s) ==
    IF 0 < s.currentStep /\ s.currentStep <= Len(steps)
    THEN steps[s.currentStep].question
    ELSE Null

\* getCurrentQuestion(): currentStep is a 0-based index into this.steps
getCurrentQuestion(s) ==
    IF s.currentStep < Len(steps) THEN steps[s.currentStep + 1].question ELSE Null

\* a storeResponse that forgets this.currentStep++
storeResponseNoAdvance(s, value) ==
    IF s.currentStep < Len(steps)
    THEN [s EXCEPT !.collectedData = Put(@, steps[s.currentStep + 1].field, value)]
    ELSE s

\* a storeResponse that, once the catalog is exhausted, keeps writing its last field
storeResponseClamped(s, value) ==
    IF s.currentStep < Len(steps)
    THEN [s EXCEPT
            !.collectedData = Put(@, steps[s.currentStep + 1].field, value),
            !.currentStep = @ + 1]
    ELSE [s EXCEPT !.collectedData = Put(@, steps[Len(steps)].field, value)]

\* storeResponse(value)
storeResponse(s, value) ==
    IF s.currentStep < Len(steps)
    THEN [s EXCEPT
            !.collectedData = Put(@, steps[s.currentStep + 1].field, value),
            !.currentStep = @ + 1]
    ELSE s

\* updateData(field, value)
updateData(s, field, value) ==
    [s EXCEPT !.collectedData = Put(@, field, value)]

\* addNewData(field, value)
addNewData(s, field, value) ==
    [s EXCEPT !.collectedData = Put(@, field, value)]

\* buildSystemPrompt() (the arrows of the source text are written ->)
buildSystemPrompt(s) ==
    IF isDataCollectionComplete(s)
    THEN "You are a helpful financial assistant. The user has provided the following data:\n"
         \o JSONstringifyPretty(s.collectedData)
         \o "\n\nYou can:\n1. Answer questions about their finances (net worth, totals, comparisons)\n"
         \o "2. If they want to UPDATE existing data, respond with: UPDATE_DATA|field|newValue\n"
         \o "   Example: \"UPDATE_DATA|cash|5000\"\n"
         \o "3. If they want to ADD new data fields, respond with: ADD_DATA|fieldName|value\n"
         \o "   Example: \"ADD_DATA|stocks|25000\"\n\n"
         \o "When users say things like:\n"
         \o "- \"Actually my cash is $5000\" -> UPDATE_DATA|cash|5000\n"
         \o "- \"I also have $25k in stocks\" -> ADD_DATA|stocks|25000\n"
         \o "- \"Change my age to 36\" -> UPDATE_DATA|age|36\n\n"
         \o "Otherwise, answer their questions naturally using the data provided."
    ELSE LET currentField == steps[s.currentStep + 1].field IN
         "You are collecting financial information. You just asked for the user's "
         \o currentField \o ".\nExtract their " \o currentField
         \o " from their response, acknowledge it briefly, and I'll tell you what to ask next."

---------------------------------------------------------------------------
(* Conversation turns *)

UserTurn(content) == [role |-> "user", content |-> content]
AssistantTurn(content) == [role |-> "assistant", content |-> content]
BlocksTurn(role, blocks) == [role |-> role, blocks |-> blocks]

\* conversationHistory.unshift(turn): the turn goes to the front
pushFront(s, turn) == [s EXCEPT !.conversationHistory = <<turn>> \o @]

\* session.conversationHistory.push(turn)
push(s, turn) == [s EXCEPT !.conversationHistory = Append(@, turn)]

---------------------------------------------------------------------------
(* POST /chat/structured, up to its response or its Gateway call *)

RequestBody(message, isInitial) == [message |-> message, isInitial |-> isInitial]

\* the condition of the greeting branch in src/server.js
IsFirstMessageMinimal(s, body) == Len(s.conversationHistory) = 0

\* a greeting branch that reads only the message, not isInitial
IsFirstMessageRichMessageOnly(s, body) == body.message = "start"

\* the condition of the greeting branch in src/unnamed/part_000
IsFirstMessageRich(s, body) == body.message = "start" \/ body.isInitial

IsFirstMessage(s, body) ==
    IF variant = "server.js"
    THEN IsFirstMessageMinimal(s, body)
    ELSE IsFirstMessageRich(s, body)

GreetingText(s) ==
    "Hello! I'm here to collect some financial information. "
    \o Interpolate(getCurrentQuestion(s))

CompletionText ==
    "Great! I've collected all your information. You can now ask me questions like 'What is my net worth?' or 'Show me my information'."

NextQuestionText(s) == "Got it! " \o Interpolate(getCurrentQuestion(s))

\* a catch block that takes the turn's last history entry back
CaughtRollingBack(s, message) ==
    [session |-> [s EXCEPT !.conversationHistory = SubSeq(@, 1, Len(@) - 1)],
     outcome |-> "respond",
     status |-> 500,
     json |-> [error |-> message]]

\* res.json({ response, sessionId })
Reply(s, text, sessionId) ==
    [session |-> push(s, AssistantTurn(text)),
     outcome |-> "respond",
     status |-> 200,
     json |-> [response |-> text, sessionId |-> sessionId]]

\* the catch block: res.status(500).json({ error: error.message })
Caught(s, message) ==
    [session |-> s,
     outcome |-> "respond",
     status |-> 500,
     json |-> [error |-> message]]

\* the handler suspends at `await anthropic.messages.create({...})`
Await(s, system) ==
    [session |-> s,
     outcome |-> "await",
     call |-> [system |-> system, messages |-> s.conversationHistory]]

\* a handler that appends the user turn before it tests for the greeting branch
StructuredTurnPushingFirst(s, body, sessionId) ==
    LET pushed == push(s, UserTurn(body.message)) IN
    IF IsFirstMessage(s, body)
    THEN IF s.class # "ConversationState"
         THEN Caught(pushed, "state.getCurrentQuestion is not a function")
         ELSE Reply(pushed, GreetingText(pushed), sessionId)
    ELSE IF s.class # "ConversationState"
         THEN Caught(pushed, "state.isDataCollectionComplete is not a function")
         ELSE IF ~isDataCollectionComplete(pushed)
         THEN LET stored == storeResponse(pushed, body.message) IN
              IF isDataCollectionComplete(stored)
              THEN Reply(stored, CompletionText, sessionId)
              ELSE Reply(stored, NextQuestionText(stored), sessionId)
         ELSE Await(pushed, buildSystemPrompt(pushed))

\* a handler whose greeting branch starts the questionnaire again
StructuredTurnRestarting(s, body, sessionId) ==
    IF IsFirstMessage(s, body)
    THEN IF s.class # "ConversationState"
         THEN Caught(s, "state.getCurrentQuestion is not a function")
         ELSE Reply([s EXCEPT !.currentStep = 0],
                    GreetingText([s EXCEPT !.currentStep = 0]), sessionId)
    ELSE LET pushed == push(s, UserTurn(body.message)) IN
         IF s.class # "ConversationState"
         THEN Caught(pushed, "state.isDataCollectionComplete is not a function")
         ELSE IF ~isDataCollectionComplete(pushed)
         THEN LET stored == storeResponse(pushed, body.message) IN
              IF isDataCollectionComplete(stored)
              THEN Reply(stored, CompletionText, sessionId)
              ELSE Reply(stored, NextQuestionText(stored), sessionId)
         ELSE Await(pushed, buildSystemPrompt(pushed))

\* The handler's synchronous part on session object s.  A session object made by
\* /chat/tools is a plain object without ConversationState's methods: calling
\* one throws a TypeError, which the catch block answers.
StructuredTurn(s, body, sessionId) ==
    IF IsFirstMessage(s, body)
    THEN IF s.class # "ConversationState"
         THEN Caught(s, "state.getCurrentQuestion is not a function")
         ELSE Reply(s, GreetingText(s), sessionId)
    ELSE LET pushed == push(s, UserTurn(body.message)) IN
         IF s.class # "ConversationState"
         THEN Caught(pushed, "state.isDataCollectionComplete is not a function")
         ELSE IF ~isDataCollectionComplete(pushed)
         THEN LET stored == storeResponse(pushed, body.message) IN
              IF isDataCollectionComplete(stored)
              THEN Reply(stored, CompletionText, sessionId)
              ELSE Reply(stored, NextQuestionText(stored), sessionId)
         ELSE Await(pushed, buildSystemPrompt(pushed))

---------------------------------------------------------------------------
(* POST /chat/structured, from the Gateway's response to the handler's own *)

\* a response that leaves collectedData out
ReplyWithoutData(s, text, sessionId) ==
    [session |-> push(s, AssistantTurn(text)),
     outcome |-> "respond",
     status |-> 200,
     json |-> [response |-> text, sessionId |-> sessionId]]

\* res.json({ response, sessionId, collectedData })
ReplyWithData(s, text, sessionId) ==
    [session |-> push(s, AssistantTurn(text)),
     outcome |-> "respond",
     status |-> 200,
     json |-> [response |-> text, sessionId |-> sessionId,
               collectedData |-> s.collectedData]]

UpdatedText(field, value) ==
    "Got it! I've updated your " \o Interpolate(field) \o " to " \o Interpolate(value)
    \o ". Your updated information is now saved."

AddedText(field, value) ==
    "Perfect! I've added " \o Interpolate(field) \o ": " \o Interpolate(value)
    \o " to your profile."

\* a handler that looks for the command anywhere in the text (includes)
StructuredResumeAnywhere(s, assistantMessage, sessionId) ==
    LET parts == split(assistantMessage, "|")
        field == Destructure(parts, 2)
        value == Destructure(parts, 3)
    IN  IF includes(assistantMessage, "UPDATE_DATA|")
        THEN ReplyWithData(updateData(s, field, value), UpdatedText(field, value), sessionId)
        ELSE IF includes(assistantMessage, "ADD_DATA|")
        THEN ReplyWithData(addNewData(s, field, value), AddedText(field, value), sessionId)
        ELSE ReplyWithData(s, assistantMessage, sessionId)

\* assistantMessage is response.content[0].text
StructuredResume(s, assistantMessage, sessionId) ==
    LET parts == split(assistantMessage, "|")
        field == Destructure(parts, 2)
        value == Destructure(parts, 3)
    IN  IF startsWith(assistantMessage, "UPDATE_DATA|")
        THEN ReplyWithData(updateData(s, field, value), UpdatedText(field, value), sessionId)
        ELSE IF startsWith(assistantMessage, "ADD_DATA|")
        THEN ReplyWithData(addNewData(s, field, value), AddedText(field, value), sessionId)
        ELSE ReplyWithData(s, assistantMessage, sessionId)

---------------------------------------------------------------------------
(* POST /chat/tools *)

\* the object literal { conversationHistory: [], collectedData: {} }
NewToolSession ==
    [class |-> "Object",
     collectedData |-> EmptyObject,
     conversationHistory |-> <<>>]

SYSTEM_PROMPT_WITH_TOOLS ==
    "You are a financial data collection assistant with access to tools.\n\n"
    \o "Your process:\n"
    \o "1. Greet the user and ask for their name\n"
    \o "2. After they respond, use store_user_data to save it\n"
    \o "3. Continue asking for: age, income, cash, retirement (one at a time)\n"
    \o "4. Use store_user_data after each response\n"
    \o "5. After all data is collected, offer to answer questions\n"
    \o "6. Use get_collected_data to retrieve information when answering questions\n\n"
    \o "Ask ONE question at a time and be conversational."

TextBlock(text) == [type |-> "text", text |-> text]

\* a tool_use block; the input {} of get_collected_data has neither property
ToolUseBlock(id, name, field, value) ==
    [type |-> "tool_use", id |-> id, name |-> name,
     input |-> [field |-> field, value |-> value]]

ToolResultBlock(id, content) ==
    [type |-> "tool_result", tool_use_id |-> id, content |-> content]

\* response.content.find(block => block.type === wanted): the first such block
HasBlock(content, wanted) == \E i \in 1..Len(content) : content[i].type = wanted
FindBlock(content, wanted) ==
    content[CHOOSE i \in 1..Len(content) :
        /\ content[i].type = wanted
        /\ \A j \in 1..(i - 1) : content[j].type # wanted]

\* the tool's effect on the session
ApplyTool(s, toolUse) ==
    IF toolUse.name = "store_user_data"
    THEN [s EXCEPT !.collectedData = Put(@, toolUse.input.field, toolUse.input.value)]
    ELSE s

\* JSON.stringify(toolResult); toolResult stays undefined for any other tool name
ToolResultText(s, toolUse) ==
    IF toolUse.name = "store_user_data"
    THEN "{\"success\":true,\"message\":\"Stored " \o Interpolate(toolUse.input.field) \o "\"}"
    ELSE IF toolUse.name = "get_collected_data"
    THEN JSONstringify(s.collectedData)
    ELSE Undefined

\* the synchronous part: push the user message and call the Gateway
ToolsTurn(s, body) ==
    Await(push(s, UserTurn(body.message)), SYSTEM_PROMPT_WITH_TOOLS)

\* a loop body that appends the tool request and forgets the tool result
ToolsLoopBodyWithoutResult(s, response) ==
    IF ~HasBlock(response.content, "tool_use")
    THEN Caught(s, "Cannot read properties of undefined (reading 'name')")
    ELSE LET toolUse == FindBlock(response.content, "tool_use")
             stored == ApplyTool(s, toolUse)
             answered == push(stored, BlocksTurn("assistant", response.content))
         IN  Await(answered, SYSTEM_PROMPT_WITH_TOOLS)

\* one pass of `while (response.stop_reason === 'tool_use')`, up to the next await;
\* with no tool_use block, toolUse is undefined and reading toolUse.name throws
ToolsLoopBody(s, response) ==
    IF ~HasBlock(response.content, "tool_use")
    THEN Caught(s, "Cannot read properties of undefined (reading 'name')")
    ELSE LET toolUse == FindBlock(response.content, "tool_use")
             stored == ApplyTool(s, toolUse)
             answered == push(push(stored,
                            BlocksTurn("assistant", response.content)),
                            BlocksTurn("user",
                                <<ToolResultBlock(toolUse.id, ToolResultText(stored, toolUse))>>))
         IN  Await(answered, SYSTEM_PROMPT_WITH_TOOLS)

FallbackText == "I apologize, I encountered an issue."

\* a handler that reads textContent.text without testing textContent
ToolsFinishWithoutFallback(s, response, sessionId) ==
    IF HasBlock(response.content, "text")
    THEN ReplyWithData(s, FindBlock(response.content, "text").text, sessionId)
    ELSE Caught(s, "Cannot read properties of undefined (reading 'text')")

\* after the loop: the first text block's text, or the fallback
ToolsFinish(s, response, sessionId) ==
    LET assistantMessage ==
            IF HasBlock(response.content, "text")
            THEN FindBlock(response.content, "text").text
            ELSE FallbackText
    IN  ReplyWithData(s, assistantMessage, sessionId)

\* a loop that goes on until the stop reason is end_turn
ToolsResumeUnlessEndTurn(s, response, sessionId) ==
    IF response.stop_reason # "end_turn"
    THEN ToolsLoopBody(s, response)
    ELSE ToolsFinish(s, response, sessionId)

\* the handler from the Gateway's response on
ToolsResume(s, response, sessionId) ==
    IF response.stop_reason = "tool_use"
    THEN ToolsLoopBody(s, response)
    ELSE ToolsFinish(s, response, sessionId)

---------------------------------------------------------------------------
(* The inputs: requests, and what the Gateway answers *)

SessionIds == {"s1", "s2"}

\* req.body of a /chat/structured request
StructuredBodies ==
    {RequestBody("start", FALSE), RequestBody("5000", FALSE),
     RequestBody("Ada", FALSE), RequestBody("Ada", TRUE)}

\* req.body of a /chat/tools request (isInitial is not read there)
ToolsBodies == {RequestBody("Hi", FALSE)}

\* response.content[0].text of the Gateway's answer to /chat/structured
GatewayTexts ==
    {"UPDATE_DATA|cash|5000", "ADD_DATA|stocks|25000", "ADD_DATA|cash|7",
     "ADD_DATA|7|x", "UPDATE_DATA|__proto__|x", "UPDATE_DATA|__proto__",
     "Your net worth is $5,000.", "Noted: UPDATE_DATA|cash|1",
     "UPDATE_DATA|age", "ADD_DATA|note|a|b"}

\* the Gateway's answers to /chat/tools
ToolResponse(stop_reason, content) ==
    [stop_reason |-> stop_reason, content |-> content]

ToolRequests ==
    {ToolResponse("tool_use",
        <<TextBlock("Nice to meet you."), ToolUseBlock("toolu_1", "store_user_data", "name", "Ada")>>),
     ToolResponse("tool_use",
        <<ToolUseBlock("toolu_3", "get_collected_data", Undefined, Undefined)>>),
     ToolResponse("tool_use",
        <<ToolUseBlock("toolu_4", "delete_user_data", "name", Undefined)>>),
     ToolResponse("tool_use",
        <<ToolUseBlock("toolu_8", "store_user_data", "__proto__", "x")>>)}

FinalResponses ==
    {ToolResponse("end_turn", <<TextBlock("Thanks Ada"), TextBlock("What is your age?")>>),
     ToolResponse("max_tokens", <<>>)}

\* error.message of a failed Gateway call
GatewayErrors == {"Connection error."}

---------------------------------------------------------------------------
(* The server *)

NoStep ==
    [req |-> 0, endpoint |-> "none", sessionId |-> "", body |-> RequestBody("", FALSE),
     existed |-> FALSE, begin |-> NewToolSession, pre |-> NewToolSession,
     post |-> NewToolSession, outcome |-> "none", calls |-> 0, replies |-> <<>>,
     thrown |-> <<>>, status |-> 0, json |-> [error |-> ""]]

\* a server that keeps one session object for every identifier
GetOrCreateShared(sessionId, fresh) ==
    IF DOMAIN sessions # {}
    THEN sessions[CHOOSE id \in DOMAIN sessions : id \in SessionIds]
    ELSE fresh

\* sessions.get(sessionId) once `if (!sessions.has(sessionId)) sessions.set(...)` has run
GetOrCreate(sessionId, fresh) ==
    IF sessionId \in DOMAIN sessions THEN sessions[sessionId] ELSE fresh

\* the Map after the handler's step on the session object
WithSession(sessionId, s) ==
    [id \in DOMAIN sessions \cup {sessionId} |->
        IF id = sessionId THEN s ELSE sessions[id]]

Without(f, id) == [k \in DOMAIN f \ {id} |-> f[k]]

\* What a handler step leaves behind: the session object, and either the
\* response (the request is over) or the handler suspended at its Gateway call.
\* lastStep keeps, for the step just taken: the request, the session object when
\* the request arrived (begin), before and after this step (pre, post), the
\* Gateway calls made and the Gateway's answers so far in the turn (calls,
\* replies), and the error message of a rejected Gateway call (thrown).
Settle(id, p, pre, out, reply, thrown) ==
    /\ sessions' = WithSession(p.sessionId, out.session)
    /\ LET calls == IF out.outcome = "await" THEN p.calls + 1 ELSE p.calls
           replies == p.replies \o reply
       IN  /\ pending' =
                IF out.outcome = "await"
                THEN [k \in DOMAIN pending \cup {id} |->
                        IF k = id
                        THEN [p EXCEPT !.calls = calls, !.replies = replies,
                                       !.call = out.call]
                        ELSE pending[k]]
                ELSE Without(pending, id)
           /\ lastStep' =
                [req |-> id, endpoint |-> p.endpoint, sessionId |-> p.sessionId,
                 body |-> p.body, existed |-> p.existed, begin |-> p.begin,
                 pre |-> pre, post |-> out.session, outcome |-> out.outcome,
                 calls |-> calls, replies |-> replies, thrown |-> thrown,
                 status |-> IF out.outcome = "await" THEN 0 ELSE out.status,
                 json |-> IF out.outcome = "await" THEN [error |-> ""] ELSE out.json]

\* a request as the handler takes it up
Accepted(endpoint, sessionId, body, s) ==
    [endpoint |-> endpoint, sessionId |-> sessionId, body |-> body,
     existed |-> sessionId \in DOMAIN sessions, begin |-> s,
     calls |-> 0, replies |-> <<>>, call |-> [system |-> "", messages |-> <<>>]]

\* the session identifier whose requests the second server is sent too
Observed == "s1"

\* sessions.get(Observed) on the second server, once a missing session is set
AloneSession(fresh) ==
    IF Observed \in DOMAIN alone.sessions THEN alone.sessions[Observed] ELSE fresh

\* the second server after a handler step on session Observed
AloneAfter(out) ==
    [sessions |-> [id \in {Observed} |-> out.session],
     outcome |-> out.outcome,
     status |-> IF out.outcome = "await" THEN 0 ELSE out.status,
     json |-> IF out.outcome = "await" THEN [error |-> ""] ELSE out.json]

\* app.post('/chat/structured'): from the request to the response or the await
StructuredRequest(sessionId, body) ==
    /\ nRequests' = nRequests + 1
    /\ LET s == GetOrCreate(sessionId, NewConversationState) IN
       Settle(nRequests + 1, Accepted("/chat/structured", sessionId, body, s), s,
              StructuredTurn(s, body, sessionId), <<>>, <<>>)
    /\ alone' = IF sessionId = Observed
                THEN AloneAfter(StructuredTurn(AloneSession(NewConversationState),
                                               body, sessionId))
                ELSE alone
    /\ UNCHANGED <<variant, state, supplied, returned>>

\* app.post('/chat/structured'): the Gateway has answered
StructuredGatewayResponds(id, text) ==
    /\ id \in DOMAIN pending
    /\ pending[id].endpoint = "/chat/structured"
    /\ LET p == pending[id]
           s == sessions[p.sessionId]
       IN  Settle(id, p, s, StructuredResume(s, text, p.sessionId), <<text>>, <<>>)
    /\ alone' = IF pending[id].sessionId = Observed
                THEN AloneAfter(StructuredResume(alone.sessions[Observed], text, Observed))
                ELSE alone
    /\ UNCHANGED <<variant, nRequests, state, supplied, returned>>

\* app.post('/chat/tools'): from the request to the first await
ToolsRequest(sessionId, body) ==
    /\ nRequests' = nRequests + 1
    /\ LET s == GetOrCreate(sessionId, NewToolSession) IN
       Settle(nRequests + 1, Accepted("/chat/tools", sessionId, body, s), s,
              ToolsTurn(s, body), <<>>, <<>>)
    /\ alone' = IF sessionId = Observed
                THEN AloneAfter(ToolsTurn(AloneSession(NewToolSession), body))
                ELSE alone
    /\ UNCHANGED <<variant, state, supplied, returned>>

ToolRounds(p) ==
    Cardinality({i \in 1..Len(p.replies) : p.replies[i].stop_reason = "tool_use"})

\* app.post('/chat/tools'): the Gateway has answered with a tool request
ToolsGatewayRequestsTool(id, response) ==
    /\ id \in DOMAIN pending
    /\ pending[id].endpoint = "/chat/tools"
    /\ response.stop_reason = "tool_use"
    /\ LET p == pending[id]
           s == sessions[p.sessionId]
       IN  Settle(id, p, s, ToolsResume(s, response, p.sessionId), <<response>>, <<>>)
    /\ alone' = IF pending[id].sessionId = Observed
                THEN AloneAfter(ToolsResume(alone.sessions[Observed], response, Observed))
                ELSE alone
    /\ UNCHANGED <<variant, nRequests, state, supplied, returned>>

\* app.post('/chat/tools'): the Gateway has answered with any other stop reason
ToolsGatewayFinishes(id, response) ==
    /\ id \in DOMAIN pending
    /\ pending[id].endpoint = "/chat/tools"
    /\ response.stop_reason # "tool_use"
    /\ LET p == pending[id]
           s == sessions[p.sessionId]
       IN  Settle(id, p, s, ToolsResume(s, response, p.sessionId), <<response>>, <<>>)
    /\ alone' = IF pending[id].sessionId = Observed
                THEN AloneAfter(ToolsResume(alone.sessions[Observed], response, Observed))
                ELSE alone
    /\ UNCHANGED <<variant, nRequests, state, supplied, returned>>

\* either handler: the awaited Gateway call rejects, the catch block answers
GatewayFails(id, message) ==
    /\ id \in DOMAIN pending
    /\ LET p == pending[id]
           s == sessions[p.sessionId]
       IN  Settle(id, p, s, Caught(s, message), <<>>, <<message>>)
    /\ alone' = IF pending[id].sessionId = Observed
                THEN AloneAfter(Caught(alone.sessions[Observed], message))
                ELSE alone
    /\ UNCHANGED <<variant, nRequests, state, supplied, returned>>

---------------------------------------------------------------------------
(* Direct calls of ConversationState's methods *)

AnswerValues == {"Ada", "5000"}

CallStoreResponse(value) ==
    /\ state' = storeResponse(state, value)
    /\ supplied' = Append(supplied, value)
    /\ returned' = Undefined
    /\ UNCHANGED <<variant, sessions, pending, nRequests, lastStep, alone>>

CallGetCurrentQuestion ==
    /\ returned' = getCurrentQuestion(state)
    /\ UNCHANGED <<variant, sessions, pending, nRequests, lastStep, state, supplied, alone>>

---------------------------------------------------------------------------
(* The states a behaviour starts in *)

\* the answers of the turns that brought a session to where a behaviour takes it up
PreloadAnswer(i) == IF i % 2 = 1 THEN "Ada" ELSE "5000"

\* the session object after a greeting turn and k answer turns
RECURSIVE SessionAfter(_)
SessionAfter(k) ==
    IF k = 0
    THEN StructuredTurn(NewConversationState, RequestBody("start", TRUE), "s1").session
    ELSE StructuredTurn(SessionAfter(k - 1), RequestBody(PreloadAnswer(k), FALSE), "s1").session

NoSessions == [id \in {} |-> NewToolSession]

\* session s1, k answers into its questionnaire
Preloaded(k) == [id \in {"s1"} |-> SessionAfter(k)]

\* the server with no request in progress
Idle ==
    /\ pending = [id \in {} |-> 0]
    /\ nRequests = 0
    /\ lastStep = NoStep
    /\ state = NewConversationState
    /\ supplied = <<>>
    /\ returned = Undefined
    /\ alone = [sessions |-> [id \in DOMAIN sessions \cap {Observed} |-> sessions[id]],
                outcome |-> "none", status |-> 0, json |-> [error |-> ""]]

\* the server as started (no session), or with session s1 early in its
\* questionnaire, one answer short of complete, or complete
Init ==
    /\ variant \in Variants
    /\ sessions \in {NoSessions} \cup
                    {Preloaded(k) : k \in {2, Len(steps) - 1, Len(steps)}}
    /\ Idle

\* the server as started
InitFresh ==
    /\ variant \in Variants
    /\ sessions = NoSessions
    /\ Idle

\* the server as started, or with the questionnaire of session s1 complete
InitServer ==
    /\ variant \in Variants
    /\ sessions \in {NoSessions, Preloaded(Len(steps))}
    /\ Idle

---------------------------------------------------------------------------
(* The specifications *)

\* /chat/structured alone
Next ==
    \/ \E sessionId \in SessionIds, body \in StructuredBodies :
            /\ nRequests < MaxRequests
            /\ StructuredRequest(sessionId, body)
    \/ \E id \in 1..MaxRequests, text \in GatewayTexts :
            StructuredGatewayResponds(id, text)
    \/ \E id \in 1..MaxRequests, message \in GatewayErrors :
            GatewayFails(id, message)

Spec == Init /\ [][Next]_vars

\* /chat/tools alone, one turn at a time on session s1
NextTools ==
    \/ \E body \in ToolsBodies :
            /\ nRequests < MaxToolTurns
            /\ DOMAIN pending = {}
            /\ ToolsRequest("s1", body)
    \/ \E id \in 1..MaxToolTurns, response \in ToolRequests :
            /\ id \in DOMAIN pending
            /\ ToolRounds(pending[id]) < MaxToolRounds
            /\ ToolsGatewayRequestsTool(id, response)
    \/ \E id \in 1..MaxToolTurns, response \in FinalResponses :
            ToolsGatewayFinishes(id, response)
    \/ \E id \in 1..MaxToolTurns, message \in GatewayErrors :
            GatewayFails(id, message)

SpecTools == InitFresh /\ [][NextTools]_vars

\* /chat/tools alone, with a Gateway that does not answer every call of a turn
\* with a tool request: while a turn waits, an answer with another stop reason
\* eventually arrives
SpecToolsLive ==
    /\ InitFresh
    /\ [][NextTools]_vars
    /\ \A id \in 1..MaxToolTurns :
            WF_vars(\E response \in FinalResponses : ToolsGatewayFinishes(id, response))

\* both endpoints
ServerBodies == {RequestBody("start", FALSE), RequestBody("5000", FALSE)}
ServerTexts == {"UPDATE_DATA|cash|7", "Your net worth is $5,000."}
ServerToolRequests ==
    {ToolResponse("tool_use",
        <<ToolUseBlock("toolu_2", "store_user_data", "name", "Bob")>>)}
ServerFinalResponses ==
    {ToolResponse("end_turn", <<TextBlock("Thanks Ada"), TextBlock("What is your age?")>>)}

NextServer ==
    \/ \E sessionId \in SessionIds, body \in ServerBodies :
            /\ nRequests < MaxServerRequests
            /\ StructuredRequest(sessionId, body)
    \/ \E id \in 1..MaxServerRequests, text \in ServerTexts :
            StructuredGatewayResponds(id, text)
    \/ \E sessionId \in SessionIds, body \in ToolsBodies :
            /\ nRequests < MaxServerRequests
            /\ ToolsRequest(sessionId, body)
    \/ \E id \in 1..MaxServerRequests, response \in ServerToolRequests :
            /\ id \in DOMAIN pending
            /\ ToolRounds(pending[id]) < MaxServerToolRounds
            /\ ToolsGatewayRequestsTool(id, response)
    \/ \E id \in 1..MaxServerRequests, response \in ServerFinalResponses :
            ToolsGatewayFinishes(id, response)
    \/ \E id \in 1..MaxServerRequests, message \in GatewayErrors :
            GatewayFails(id, message)

SpecServer == InitServer /\ [][NextServer]_vars

\* ConversationState's methods called directly on a fresh object
NextClass ==
    \/ \E value \in AnswerValues :
            /\ Len(supplied) < Len(steps) + MaxExtraCalls
            /\ CallStoreResponse(value)
    \/ CallGetCurrentQuestion

SpecClass == InitFresh /\ [][NextClass]_vars

---------------------------------------------------------------------------
(* Vocabulary of the properties *)

Last(seq) == seq[Len(seq)]

\* the step just taken is the arrival of a /chat/structured request at a
\* ConversationState session: the handler's part up to its response or its await
StructuredArrival ==
    /\ lastStep.endpoint = "/chat/structured"
    /\ lastStep.replies = <<>>
    /\ lastStep.thrown = <<>>
    /\ lastStep.pre.class = "ConversationState"

\* the request of the step just taken asks for initialization
Initializing == lastStep.body.message = "start" \/ lastStep.body.isInitial

\* the request of the step just taken goes down the greeting branch of its file
GreetingBranch ==
    IF variant = "server.js"
    THEN lastStep.pre.conversationHistory = <<>>
    ELSE Initializing

\* the step just taken is an answer turn: a request outside the greeting branch
\* that arrived while the questionnaire was incomplete
AnswerTurn ==
    /\ StructuredArrival
    /\ ~GreetingBranch
    /\ lastStep.pre.currentStep < Len(steps)

GreetingOf(question) ==
    "Hello! I'm here to collect some financial information. " \o question

\* the step just taken sent the response the claim asks of a first turn
GreetedWithFirstQuestion ==
    /\ lastStep.outcome = "respond"
    /\ lastStep.status = 200
    /\ lastStep.json.response = GreetingOf(steps[1].question)
    /\ lastStep.calls = 0

\* the keys of the first n catalog entries, in catalog order
CatalogKeys(n) == [i \in 1..n |-> steps[i].field]

---------------------------------------------------------------------------
(* C1 *)

\* C1: after N <= catalog length consecutive storeResponse calls on a fresh
\* ConversationState, collectedData has exactly the first N catalog keys, the
\* k-th of them mapped to the k-th value supplied, and currentStep = N.
C1_StoreResponsePrefix ==
    Len(supplied) <= Len(steps) =>
        /\ state.currentStep = Len(supplied)
        /\ Keys(state.collectedData) = CatalogKeys(Len(supplied))
        /\ \A k \in 1..Len(supplied) :
                Get(state.collectedData, steps[k].field) = supplied[k]

\* the fourteen-question catalog answered in full, with both values among the answers
C1_Witness ==
    /\ variant = "part_000"
    /\ Len(supplied) = Len(steps)
    /\ supplied[1] = "Ada"
    /\ supplied[Len(steps)] = "5000"
    /\ state.currentStep = 14

---------------------------------------------------------------------------
(* C2 *)

\* the step just taken is a turn after the session's first, taken while the
\* questionnaire was incomplete
LaterTurnWhileCollecting ==
    /\ StructuredArrival
    /\ lastStep.existed
    /\ lastStep.pre.currentStep < Len(steps)

\* the step just taken recorded the raw message under the key of the catalog
\* entry at the cursor, advanced the cursor by one and answered without the
\* Gateway: with the completion sentence exactly when the cursor has reached the
\* catalog length, otherwise with "Got it! " and the question at the new cursor
RecordedAndAnswered ==
    LET k == lastStep.pre.currentStep IN
    /\ lastStep.post.currentStep = k + 1
    /\ Get(lastStep.post.collectedData, steps[k + 1].field) = lastStep.body.message
    /\ Keys(lastStep.post.collectedData) = CatalogKeys(k + 1)
    /\ lastStep.outcome = "respond"
    /\ lastStep.status = 200
    /\ lastStep.calls = 0
    /\ (lastStep.json.response = CompletionText) <=> (k + 1 = Len(steps))
    /\ k + 1 < Len(steps) =>
            lastStep.json.response = "Got it! " \o steps[k + 2].question

\* C2 as claimed: every /chat/structured turn after the first, taken while
\* collection is incomplete, records the raw message at the cursor and answers
\* with the completion sentence exactly when that made the questionnaire
\* complete, otherwise with an acknowledgment and the question at the new cursor.
C2_Claimed == LaterTurnWhileCollecting => RecordedAndAnswered

\* C2 as amended: every /chat/structured turn after the first, taken while
\* collection is incomplete and outside the greeting branch (in the
\* fourteen-question file a request with message 'start' or isInitial set goes
\* down it at any cursor), records the raw message at the cursor and answers with
\* the completion sentence exactly when that made the questionnaire complete,
\* otherwise with an acknowledgment and the question at the new cursor; a later
\* turn that goes down the greeting branch records nothing.
C2_AnswerTurn ==
    LaterTurnWhileCollecting =>
        IF GreetingBranch
        THEN /\ lastStep.post.currentStep = lastStep.pre.currentStep
             /\ lastStep.post.collectedData = lastStep.pre.collectedData
             /\ lastStep.json.response # CompletionText
             /\ lastStep.calls = 0
        ELSE RecordedAndAnswered

\* the fourteenth answer turn has just been answered with the completion sentence
C2_Witness ==
    /\ AnswerTurn
    /\ lastStep.existed
    /\ variant = "part_000"
    /\ lastStep.post.currentStep = 14
    /\ lastStep.json.response = CompletionText

---------------------------------------------------------------------------
(* C3 *)

\* C3 as claimed: a /chat/structured turn consults the Gateway if and only if
\* collection was complete when the turn began.
C3_Claimed ==
    StructuredArrival =>
        ((lastStep.outcome = "await") <=> (lastStep.pre.currentStep >= Len(steps)))

\* C3 as amended: a /chat/structured turn consults the Gateway if and only if
\* collection was complete when the turn began and, in the fourteen-question
\* file, the request is not an initializing one; the call is handed the full
\* history, which ends with the user turn just appended, and the instruction
\* built from the collected data.
C3_GatewayIffCompleteAndNotInitializing ==
    StructuredArrival =>
        /\ (lastStep.outcome = "await") <=>
                /\ lastStep.pre.currentStep >= Len(steps)
                /\ ~(variant = "part_000" /\ Initializing)
        /\ lastStep.outcome = "await" =>
                /\ lastStep.req \in DOMAIN pending
                /\ lastStep.calls = 1
                /\ pending[lastStep.req].call.messages =
                        Append(lastStep.pre.conversationHistory,
                               UserTurn(lastStep.body.message))
                /\ pending[lastStep.req].call.messages =
                        sessions[lastStep.sessionId].conversationHistory
                /\ pending[lastStep.req].call.system =
                        buildSystemPrompt(lastStep.pre)

\* a turn on a complete session of the fourteen-question file is at its Gateway call
C3_Witness ==
    /\ StructuredArrival
    /\ variant = "part_000"
    /\ lastStep.pre.currentStep = 14
    /\ lastStep.outcome = "await"

---------------------------------------------------------------------------
(* C4 *)

\* C4: the first /chat/structured turn for a session identifier, whatever its
\* message and isInitial, returns the greeting with the first question, does not
\* consult the Gateway, and leaves the new session with cursor 0 and no collected
\* data.  A first turn of the fourteen-question file with neither 'start' nor
\* isInitial refutes it: the message is recorded as the answer to the first
\* question.
C4_Claimed ==
    (StructuredArrival /\ ~lastStep.existed) =>
        /\ GreetedWithFirstQuestion
        /\ lastStep.post.currentStep = 0
        /\ lastStep.post.collectedData = EmptyObject

\* what holds: the first turn is greeted so in the five-question file whatever
\* its message, and in the fourteen-question file when it asks for it
FirstTurnGreetedOnEmptyHistoryOrRequest ==
    (StructuredArrival /\ ~lastStep.existed /\ (variant = "server.js" \/ Initializing)) =>
        /\ GreetedWithFirstQuestion
        /\ lastStep.post.currentStep = 0
        /\ lastStep.post.collectedData = EmptyObject
        /\ lastStep.post.conversationHistory =
                <<AssistantTurn(GreetingOf(steps[1].question))>>

\* a new session of the fourteen-question file has taken 'Ada' for the name
FirstTurnRecorded ==
    /\ StructuredArrival
    /\ ~lastStep.existed
    /\ variant = "part_000"
    /\ lastStep.body.message = "Ada"
    /\ ~lastStep.body.isInitial
    /\ lastStep.post.currentStep = 1
    /\ Get(lastStep.post.collectedData, "name") = "Ada"
    /\ lastStep.json.response = "Got it! " \o steps[2].question

---------------------------------------------------------------------------
(* C5 *)

\* C5: a /chat/structured request with message 'start' or isInitial set is
\* answered, whatever the session's cursor, with the greeting and the first
\* catalog question, without consulting the Gateway.
C5_Claimed ==
    (StructuredArrival /\ Initializing) => GreetedWithFirstQuestion

---------------------------------------------------------------------------
(* C6 *)

\* the step just taken is the handler's part after the Gateway's answer to a
\* /chat/structured turn
StructuredAnswered ==
    /\ lastStep.endpoint = "/chat/structured"
    /\ lastStep.replies # <<>>
    /\ lastStep.thrown = <<>>

CommandFields == {"cash", "stocks", "age", "note", "7", "__proto__"}
CommandValues == {"5000", "25000", "7", "1", "x"}

ConfirmationOf(prefix, f, v) ==
    IF prefix = "UPDATE_DATA"
    THEN "Got it! I've updated your " \o f \o " to " \o v
         \o ". Your updated information is now saved."
    ELSE "Perfect! I've added " \o f \o ": " \o v \o " to your profile."

\* the turn answered by a well-formed command naming one of `fields` ends with
\* collectedData[f] = v, every other field as it was, and the confirmation
\* sentence as the response and as the last turn of the history
MutationCommandApplied(fields) ==
    StructuredAnswered =>
        \A prefix \in {"UPDATE_DATA", "ADD_DATA"}, f \in fields, v \in CommandValues :
            Last(lastStep.replies) = prefix \o "|" \o f \o "|" \o v =>
                /\ Get(lastStep.post.collectedData, f) = v
                /\ KeySet(lastStep.post.collectedData) =
                        KeySet(lastStep.pre.collectedData) \cup {f}
                /\ \A k \in KeySet(lastStep.pre.collectedData) \ {f} :
                        Get(lastStep.post.collectedData, k) =
                        Get(lastStep.pre.collectedData, k)
                /\ lastStep.outcome = "respond"
                /\ lastStep.status = 200
                /\ lastStep.json.response = ConfirmationOf(prefix, f, v)
                /\ includes(lastStep.json.response, f)
                /\ includes(lastStep.json.response, v)
                /\ ~includes(lastStep.json.response, "|")
                /\ lastStep.json.collectedData = lastStep.post.collectedData
                /\ Last(lastStep.post.conversationHistory) =
                        AssistantTurn(lastStep.json.response)

\* C6: for every field f and value v, when the Gateway's reply is
\* 'UPDATE_DATA|f|v' or 'ADD_DATA|f|v', the turn ends with collectedData[f] = v,
\* whether or not f was there before and whatever value it had, and the reply
\* returned and appended to history is the confirmation sentence naming f and v,
\* not the command.  The field '__proto__' refutes it: the assignment stores
\* nothing and the confirmation is sent all the same.
C6_Claimed == MutationCommandApplied(CommandFields)

\* what holds of every other field of the model: the command is applied as C6
\* says
MutationCommandAppliedToOwnKeys == MutationCommandApplied(CommandFields \ {"__proto__"})

\* ADD_DATA has overwritten the cash the questionnaire had collected
OverwrittenByAddData ==
    /\ StructuredAnswered
    /\ Last(lastStep.replies) = "ADD_DATA|cash|7"
    /\ Get(lastStep.pre.collectedData, "cash") = "5000"
    /\ Get(lastStep.post.collectedData, "cash") = "7"
    /\ lastStep.json.response = "Perfect! I've added cash: 7 to your profile."

\* the field 7 has been listed before the fields collected earlier
ArrayIndexListedFirst ==
    /\ StructuredAnswered
    /\ Last(lastStep.replies) = "ADD_DATA|7|x"
    /\ Len(lastStep.pre.collectedData) = Len(steps)
    /\ Keys(lastStep.post.collectedData) = <<"7">> \o Keys(lastStep.pre.collectedData)

\* the confirmation of a write that has stored nothing
ProtoConfirmedNotStored ==
    /\ StructuredAnswered
    /\ Last(lastStep.replies) = "UPDATE_DATA|__proto__|x"
    /\ lastStep.post.collectedData = lastStep.pre.collectedData
    /\ ~HasKey(lastStep.post.collectedData, "__proto__")
    /\ lastStep.json.response =
            "Got it! I've updated your __proto__ to x. Your updated information is now saved."

---------------------------------------------------------------------------
(* C7 *)

\* the step just taken is the handler's part after a Gateway answer to a
\* /chat/tools turn
ToolsAnswered ==
    /\ lastStep.endpoint = "/chat/tools"
    /\ lastStep.replies # <<>>
    /\ lastStep.thrown = <<>>

ToolRequestsIn(replies) ==
    Cardinality({i \in 1..Len(replies) : replies[i].stop_reason = "tool_use"})

\* the text of the first text block of a response
FirstText(response) ==
    response.content[CHOOSE i \in 1..Len(response.content) :
        /\ response.content[i].type = "text"
        /\ \A j \in 1..(i - 1) : response.content[j].type # "text"].text

\* the tool_use block of a tool request of the model's Gateway
Requested(response) ==
    response.content[CHOOSE i \in 1..Len(response.content) :
        response.content[i].type = "tool_use"]

\* a /chat/tools turn has invoked the Gateway once more than it was answered
\* with a tool request; a store_user_data(field, value) request whose field is
\* not in `exempt` leaves collectedData[field] = value; and the turn's response
\* is sent on the first answer whose stop reason is not tool_use, with that
\* answer's text
ToolLoopExcept(exempt) ==
    ToolsAnswered =>
        LET answer == Last(lastStep.replies) IN
        /\ \A i \in 1..(Len(lastStep.replies) - 1) :
                lastStep.replies[i].stop_reason = "tool_use"
        /\ lastStep.calls = 1 + ToolRequestsIn(lastStep.replies)
        /\ (/\ answer.stop_reason = "tool_use"
            /\ Requested(answer).name = "store_user_data"
            /\ PropertyKey(Requested(answer).input.field) \notin exempt) =>
                Get(lastStep.post.collectedData, Requested(answer).input.field) =
                    Requested(answer).input.value
        /\ answer.stop_reason # "tool_use" =>
                /\ lastStep.outcome = "respond"
                /\ lastStep.status = 200
                /\ (\E i \in 1..Len(answer.content) : answer.content[i].type = "text") =>
                        lastStep.json.response = FirstText(answer)

\* C7: in a /chat/tools turn the Gateway has been invoked once more than it has
\* answered with a tool request; every store_user_data(field, value) request
\* leaves collectedData[field] = value; and the turn's response is sent on the
\* first answer whose stop reason is not tool_use, with that answer's text.  The
\* field '__proto__' refutes the second part: the request stores nothing and is
\* answered 'Stored __proto__'.
C7_Claimed == ToolLoopExcept({})

\* what holds with every other field of the model
ToolLoopOfOwnKeys == ToolLoopExcept({"__proto__"})

\* store_user_data(name, Ada), then the final text: two invocations
StoredThenAnswered ==
    /\ ToolsAnswered
    /\ Len(lastStep.replies) = 2
    /\ Requested(lastStep.replies[1]).name = "store_user_data"
    /\ Requested(lastStep.replies[1]).input.value = "Ada"
    /\ lastStep.calls = 2
    /\ Get(lastStep.post.collectedData, "name") = "Ada"
    /\ lastStep.json.response = "Thanks Ada"

\* get_collected_data, asked after store_user_data(name, Ada), has been answered
\* with the data collected, and the turn is at its third Gateway call
CollectedDataReturned ==
    /\ ToolsAnswered
    /\ Len(lastStep.replies) = 2
    /\ Last(lastStep.replies).stop_reason = "tool_use"
    /\ Requested(Last(lastStep.replies)).name = "get_collected_data"
    /\ Last(lastStep.post.conversationHistory) =
            BlocksTurn("user", <<ToolResultBlock("toolu_3", "{\"name\":\"Ada\"}")>>)
    /\ lastStep.post.collectedData = lastStep.pre.collectedData
    /\ lastStep.outcome = "await"
    /\ lastStep.calls = 3

---------------------------------------------------------------------------
(* C8 *)

\* after a Gateway answer, a /chat/tools turn is at its next Gateway call exactly
\* when the stop reason was tool_use, whatever the number of tool requests before,
\* and has responded exactly when it was anything else
C8_LoopCondition ==
    ToolsAnswered =>
        IF Last(lastStep.replies).stop_reason = "tool_use"
        THEN /\ lastStep.outcome = "await"
             /\ lastStep.req \in DOMAIN pending
        ELSE /\ lastStep.outcome = "respond"
             /\ lastStep.status = 200
             /\ lastStep.req \notin DOMAIN pending

\* C8: a /chat/tools turn repeats the Gateway call exactly while the stop reason
\* is tool_use and responds on the first other stop reason; if the Gateway
\* eventually answers with another stop reason, every turn eventually responds.
\* (Nothing in the handler counts the repetitions: see C8_Witness.)
C8_LoopUntilOtherStopReason ==
    /\ []C8_LoopCondition
    /\ \A id \in 1..MaxToolTurns :
            (id \in DOMAIN pending) ~> (id \notin DOMAIN pending)

\* the loop has gone round as often as the model's Gateway requests tools, and
\* the turn is at yet another Gateway call
C8_Witness ==
    /\ ToolsAnswered
    /\ ToolRequestsIn(lastStep.replies) = MaxToolRounds
    /\ lastStep.outcome = "await"
    /\ lastStep.calls = MaxToolRounds + 1

---------------------------------------------------------------------------
(* C9 *)

StructuredResponse ==
    /\ lastStep.endpoint = "/chat/structured"
    /\ lastStep.outcome = "respond"
    /\ lastStep.post.class = "ConversationState"

CarriesData == "collectedData" \in DOMAIN lastStep.json

\* C9 as claimed: a /chat/structured response carries collectedData exactly when
\* the session's collection is complete as the response is produced.
C9_Claimed ==
    StructuredResponse =>
        (CarriesData <=> lastStep.post.currentStep >= Len(steps))

\* C9 as amended: a /chat/structured response carries collectedData exactly when
\* the turn consulted the Gateway and the Gateway answered, which happens only on
\* a session whose collection was complete when the turn began; the mapping is
\* the session's, after any mutation of the turn.  The response of the completing
\* answer, a greeting and an error response do not carry it.
C9_DataIffGatewayAnswered ==
    StructuredResponse =>
        /\ CarriesData <=> (lastStep.replies # <<>> /\ lastStep.thrown = <<>>)
        /\ CarriesData =>
                /\ lastStep.json.collectedData = lastStep.post.collectedData
                /\ lastStep.begin.currentStep >= Len(steps)
        /\ (lastStep.post.currentStep < Len(steps)) => ~CarriesData

\* a Gateway-answered turn of the fourteen-question file has sent the mapping
C9_Witness ==
    /\ StructuredResponse
    /\ variant = "part_000"
    /\ CarriesData
    /\ Len(lastStep.json.collectedData) >= 14

---------------------------------------------------------------------------
(* C10 *)

\* the step just taken is the catch block's answer to a rejected Gateway call
GatewayFailure == lastStep.thrown # <<>>

\* C10: when a Gateway call is rejected, the caller gets status 500 with the
\* error's message; the call is not repeated (the request is over, every call it
\* made but this one had been answered); and the session is left as it was: the
\* user turn, every tool request and tool result appended and every
\* store_user_data field written earlier in the turn (a request for '__proto__'
\* writes none) are still there.
C10_GatewayFailure ==
    GatewayFailure =>
        /\ lastStep.outcome = "respond"
        /\ lastStep.status = 500
        /\ lastStep.json = [error |-> lastStep.thrown[1]]
        /\ lastStep.req \notin DOMAIN pending
        /\ lastStep.calls = Len(lastStep.replies) + 1
        /\ lastStep.post = lastStep.pre
        /\ sessions[lastStep.sessionId] = lastStep.pre
        /\ \E i \in 1..Len(lastStep.post.conversationHistory) :
                lastStep.post.conversationHistory[i] = UserTurn(lastStep.body.message)
        /\ \A r \in 1..Len(lastStep.replies) :
                /\ \E i \in 1..(Len(lastStep.post.conversationHistory) - 1) :
                        /\ lastStep.post.conversationHistory[i] =
                                BlocksTurn("assistant", lastStep.replies[r].content)
                        /\ lastStep.post.conversationHistory[i + 1].role = "user"
                /\ (/\ Requested(lastStep.replies[r]).name = "store_user_data"
                    /\ PropertyKey(Requested(lastStep.replies[r]).input.field)
                            # "__proto__") =>
                        HasKey(lastStep.post.collectedData,
                               Requested(lastStep.replies[r]).input.field)

\* a /chat/tools turn has failed at its second Gateway call, after a store
C10_Witness ==
    /\ GatewayFailure
    /\ lastStep.endpoint = "/chat/tools"
    /\ Len(lastStep.replies) = 1
    /\ lastStep.calls = 2
    /\ Get(lastStep.post.collectedData, "name") = "Bob"
    /\ lastStep.status = 500

---------------------------------------------------------------------------
(* C11 *)

ToolNames == {"store_user_data", "get_collected_data"}

\* the step just taken took up a Gateway answer that asks for a tool TOOLS does
\* not declare
UnknownToolRequested ==
    /\ ToolsAnswered
    /\ Last(lastStep.replies).stop_reason = "tool_use"
    /\ Requested(Last(lastStep.replies)).name \notin ToolNames

\* the tool_result block of the turn the loop appended last
LastToolResult == Last(lastStep.post.conversationHistory).blocks[1]

\* C11: a tool request naming an operation other than store_user_data and
\* get_collected_data does not crash the loop: a tool-result turn carrying an
\* error result is appended to history, the Gateway is invoked again, and
\* collectedData is unchanged.
C11_Claimed ==
    UnknownToolRequested =>
        /\ lastStep.outcome = "await"
        /\ lastStep.post.collectedData = lastStep.pre.collectedData
        /\ Last(lastStep.post.conversationHistory).role = "user"
        /\ LastToolResult.type = "tool_result"
        /\ LastToolResult.tool_use_id = Requested(Last(lastStep.replies)).id
        /\ LastToolResult.content # Undefined
        /\ includes(LastToolResult.content, "error")

---------------------------------------------------------------------------
(* C12 *)

\* the step just taken took up the Gateway answer that ends the loop, and the
\* answer has no text block
EndedWithoutText ==
    /\ ToolsAnswered
    /\ Last(lastStep.replies).stop_reason # "tool_use"
    /\ ~HasBlock(Last(lastStep.replies).content, "text")

\* C12: when the tool loop ends on a Gateway answer with no text block, the turn
\* does not throw: the response is a normal one whose text is the fallback
\* string, and that string is the assistant turn appended to history.
C12_FallbackText ==
    EndedWithoutText =>
        /\ lastStep.outcome = "respond"
        /\ lastStep.status = 200
        /\ "error" \notin DOMAIN lastStep.json
        /\ lastStep.json.response = "I apologize, I encountered an issue."
        /\ lastStep.json.sessionId = lastStep.sessionId
        /\ lastStep.json.collectedData = lastStep.post.collectedData
        /\ lastStep.post.conversationHistory =
                Append(lastStep.pre.conversationHistory,
                       AssistantTurn("I apologize, I encountered an issue."))
        /\ lastStep.post.collectedData = lastStep.pre.collectedData

\* a loop that had stored a name has ended on an answer with no text block
C12_Witness ==
    /\ EndedWithoutText
    /\ Len(lastStep.replies) = 2
    /\ Get(lastStep.post.collectedData, "name") = "Ada"
    /\ lastStep.json.response = FallbackText

---------------------------------------------------------------------------
(* C13 *)

\* the mapping the first Len(steps) values supplied make, in catalog order
FirstAnswers ==
    [k \in 1..Len(steps) |-> [key |-> steps[k].field, value |-> supplied[k]]]

\* C13: storeResponse called on a ConversationState that is already complete
\* changes nothing: collectedData and currentStep stay as the call found them
\* (so, after more calls than the catalog has entries, the mapping is the one
\* the first Len(steps) calls made), and the call returns normally.
C13_StoreResponseWhenComplete ==
    /\ [](Len(supplied) > Len(steps) =>
            /\ state.currentStep = Len(steps)
            /\ state.collectedData = FirstAnswers
            /\ returned \in {Undefined, Null})
    /\ [][state.currentStep = Len(steps) => state' = state]_vars

\* a value other than the last answer has been handed to a complete object
C13_Witness ==
    /\ Len(supplied) = Len(steps) + 1
    /\ supplied[Len(steps)] = "Ada"
    /\ supplied[Len(steps) + 1] = "5000"
    /\ state.currentStep = Len(steps)
    /\ Get(state.collectedData, steps[Len(steps)].field) = "Ada"

---------------------------------------------------------------------------
(* C16 *)

Min(a, b) == IF a < b THEN a ELSE b

\* C16: getCurrentQuestion changes nothing of the object; it returns the K-th
\* catalog question exactly when currentStep = K (0 <= K < catalog length), K
\* being the number of answers stored so far, and null when currentStep is the
\* catalog length.
C16_GetCurrentQuestion ==
    /\ [](returned # Undefined =>
            /\ state.currentStep = Min(Len(supplied), Len(steps))
            /\ \A K \in 0..(Len(steps) - 1) :
                    (returned = steps[K + 1].question) <=> (state.currentStep = K)
            /\ (returned = Null) <=> (state.currentStep = Len(steps))
            /\ Len(supplied) = 0 => returned = "What is your name?"
            /\ Len(supplied) = 1 => returned = "What is your age?")
    /\ [][returned' # Undefined => (state' = state /\ supplied' = supplied)]_vars

\* the sentinel has been returned for a complete fourteen-question object
C16_Witness ==
    /\ variant = "part_000"
    /\ state.currentStep = 14
    /\ returned = Null

---------------------------------------------------------------------------
(* C14 *)

\* the Gateway's answer to the step just taken is not a mutation command
PlainAnswer ==
    /\ StructuredAnswered
    /\ ~startsWith(Last(lastStep.replies), "UPDATE_DATA|")
    /\ ~startsWith(Last(lastStep.replies), "ADD_DATA|")

\* C14: when collection is complete and the Gateway's reply begins with neither
\* 'UPDATE_DATA|' nor 'ADD_DATA|', the reply is returned to the caller and
\* appended to history as it is, and the turn leaves collectedData and the
\* cursor unchanged.
C14_PlainAnswerVerbatim ==
    PlainAnswer =>
        /\ lastStep.begin.currentStep = Len(steps)
        /\ lastStep.outcome = "respond"
        /\ lastStep.status = 200
        /\ lastStep.json.response = Last(lastStep.replies)
        /\ lastStep.post.conversationHistory =
                Append(lastStep.pre.conversationHistory,
                       AssistantTurn(Last(lastStep.replies)))
        /\ lastStep.post.collectedData = lastStep.pre.collectedData
        /\ lastStep.post.currentStep = lastStep.pre.currentStep
        /\ lastStep.json.collectedData = lastStep.pre.collectedData

\* a reply that holds a command, but not at its beginning, has gone through
C14_Witness ==
    /\ PlainAnswer
    /\ Last(lastStep.replies) = "Noted: UPDATE_DATA|cash|1"
    /\ lastStep.json.response = "Noted: UPDATE_DATA|cash|1"
    /\ Get(lastStep.post.collectedData, "cash") = "5000"

---------------------------------------------------------------------------
(* C15 *)

\* the first server's Map, cut down to the observed session
ObservedSessions == [id \in DOMAIN sessions \cap {Observed} |-> sessions[id]]

\* the observed session, and what the caller of its last step got, are what
\* they are on the server that was never sent a request for another session
SameAsAlone ==
    /\ alone.sessions = ObservedSessions
    /\ lastStep.sessionId = Observed =>
            /\ alone.outcome = lastStep.outcome
            /\ alone.status = lastStep.status
            /\ alone.json = lastStep.json

\* C15: requests for different session identifiers are independent under any
\* interleaving: a handler step (either endpoint) for one identifier leaves the
\* session object of every other identifier as it was, and the session and the
\* responses of an identifier are the same as on a server that was sent that
\* identifier's requests only.
C15_SessionsIndependent ==
    /\ []SameAsAlone
    /\ [][\A id \in DOMAIN sessions :
            id # lastStep'.sessionId => sessions'[id] = sessions[id]]_vars

\* a turn of the observed session has been answered after a request for the
\* other session was handled during its Gateway call
C15_Witness ==
    /\ lastStep.sessionId = Observed
    /\ lastStep.req = 1
    /\ lastStep.replies # <<>>
    /\ lastStep.outcome = "respond"
    /\ nRequests = 2
    /\ "s2" \in DOMAIN sessions
    /\ sessions["s2"].conversationHistory # <<>>
    /\ alone.json = lastStep.json
    /\ DOMAIN alone.sessions = {Observed}

---------------------------------------------------------------------------
(* C17 *)

\* the sessions /chat/structured made
StructuredSessions ==
    {id \in DOMAIN sessions : sessions[id].class = "ConversationState"}

\* C17: in every reachable state, a session whose collection is not complete
\* (cursor < catalog length) has as the keys of collectedData exactly the keys of
\* the catalog entries below the cursor, whatever structured-mode turns
\* (greeting or answer) it has been through.
C17_KeysBelowCursor ==
    \A id \in StructuredSessions :
        sessions[id].currentStep < Len(steps) =>
            KeySet(sessions[id].collectedData) =
                {steps[i].field : i \in 1..sessions[id].currentStep}

\* an answer has been recorded right after a greeting sent in mid-collection
C17_Witness ==
    /\ AnswerTurn
    /\ variant = "part_000"
    /\ lastStep.req = 2
    /\ lastStep.pre.currentStep = 2
    /\ Last(lastStep.pre.conversationHistory) = AssistantTurn(GreetingOf(steps[3].question))
    /\ sessions[lastStep.sessionId].currentStep = 3
    /\ KeySet(sessions[lastStep.sessionId].collectedData) = {"name", "age", "income"}

---------------------------------------------------------------------------
(* C18 *)

\* C18: the cursor of a structured-mode session is always within 0..catalog
\* length; a step leaves it as it is or adds exactly one to it, never takes from
\* it; and once it is the catalog length it stays so, through initializing
\* requests and mutation commands too.
C18_CursorMonotone ==
    /\ [](\A id \in StructuredSessions :
            sessions[id].currentStep \in 0..Len(steps))
    /\ [][\A id \in StructuredSessions :
            /\ sessions'[id].class = "ConversationState"
            /\ sessions'[id].currentStep \in
                    {sessions[id].currentStep, sessions[id].currentStep + 1}
            /\ sessions[id].currentStep = Len(steps) =>
                    sessions'[id].currentStep = Len(steps)]_vars

\* an initializing request has been answered on a complete session that a
\* mutation command had changed before
C18_Witness ==
    /\ StructuredArrival
    /\ variant = "part_000"
    /\ Initializing
    /\ lastStep.req = 2
    /\ lastStep.pre.currentStep = 14
    /\ lastStep.post.currentStep = 14
    /\ HasKey(lastStep.post.collectedData, "stocks")

---------------------------------------------------------------------------
(* C19 *)

\* the step just taken took up a Gateway answer (either endpoint)
Answered == lastStep.replies # <<>> /\ lastStep.thrown = <<>>

\* where the user turn of the request of the step just taken went
OwnUserTurn == Len(lastStep.begin.conversationHistory) + 1

\* what the handler appends for the Gateway answer it has taken up
Produced ==
    IF lastStep.endpoint = "/chat/tools" /\ Last(lastStep.replies).stop_reason = "tool_use"
    THEN <<BlocksTurn("assistant", Last(lastStep.replies).content),
           BlocksTurn("user",
                <<ToolResultBlock(Requested(Last(lastStep.replies)).id,
                                  ToolResultText(lastStep.post,
                                                 Requested(Last(lastStep.replies))))>>)>>
    ELSE <<AssistantTurn(lastStep.json.response)>>

\* C19: requests for one session identifier are not serialized: the handler
\* appends its user turn when the request arrives and appends what it makes of a
\* Gateway answer (the assistant reply, or the tool-request and tool-result
\* turns) at the end of the history as it is when the answer arrives, so the
\* turns of requests that arrived during the Gateway call lie in between
\* (C19_Witness is such a state).
C19_RepliesAppendedOnArrival ==
    Answered =>
        /\ lastStep.post.conversationHistory[OwnUserTurn] = UserTurn(lastStep.body.message)
        /\ Len(lastStep.pre.conversationHistory) >= OwnUserTurn
        /\ lastStep.post.conversationHistory = lastStep.pre.conversationHistory \o Produced

\* the user turn of request 2 lies between the user turn of request 1 and the
\* assistant reply made for request 1, and request 2 is still at its Gateway call
C19_Witness ==
    /\ Answered
    /\ lastStep.endpoint = "/chat/structured"
    /\ lastStep.req = 1
    /\ 2 \in DOMAIN pending
    /\ pending[2].sessionId = lastStep.sessionId
    /\ Len(lastStep.post.conversationHistory) = OwnUserTurn + 2
    /\ lastStep.post.conversationHistory[OwnUserTurn] = UserTurn(lastStep.body.message)
    /\ lastStep.post.conversationHistory[OwnUserTurn + 1] = UserTurn(pending[2].body.message)
    /\ pending[2].body.message # lastStep.body.message
    /\ lastStep.post.conversationHistory[OwnUserTurn + 2] = AssistantTurn(lastStep.json.response)

---------------------------------------------------------------------------
(* C20 *)

IsUserTurn(turn) == turn.role = "user"

\* the user turns of a session's history, in order: one for each request that
\* did not go down the greeting branch
UserTurnsOf(s) == SelectSeq(s.conversationHistory, IsUserTurn)

\* the request that has just arrived did not go down the greeting branch
ArrivedOutsideGreeting(id) ==
    /\ lastStep'.req = nRequests'
    /\ nRequests' = nRequests + 1
    /\ lastStep'.sessionId = id
    /\ Len(UserTurnsOf(sessions'[id])) = Len(UserTurnsOf(sessions[id])) + 1

\* C20: no cursor update is lost: every request outside the greeting branch, in
\* whatever order the requests of a session are handled and whatever requests
\* are waiting for the Gateway, adds one to the cursor unless the cursor is the
\* catalog length; so a session that k such requests have reached is at cursor
\* min(k, catalog length), and while k is at most the catalog length the i-th
\* catalog key holds the message of the i-th of them.
C20_NoLostCursorUpdate ==
    /\ [](\A id \in StructuredSessions :
            LET users == UserTurnsOf(sessions[id]) IN
            /\ sessions[id].currentStep = Min(Len(users), Len(steps))
            /\ Len(users) <= Len(steps) =>
                    \A i \in 1..Len(users) :
                        Get(sessions[id].collectedData, steps[i].field) = users[i].content)
    /\ [][\A id \in StructuredSessions :
            ArrivedOutsideGreeting(id) =>
                sessions'[id].currentStep =
                    Min(sessions[id].currentStep + 1, Len(steps))]_vars

\* two requests have reached a session one answer short of complete: the first
\* completed it, the second is at its Gateway call
C20_Witness ==
    /\ nRequests = 2
    /\ lastStep.req = 2
    /\ lastStep.outcome = "await"
    /\ lastStep.pre.currentStep = Len(steps)
    /\ Len(UserTurnsOf(lastStep.post)) = Len(steps) + 1
    /\ Get(lastStep.post.collectedData, steps[Len(steps)].field) =
            UserTurnsOf(lastStep.post)[Len(steps)].content
    /\ DOMAIN pending = {2}

---------------------------------------------------------------------------
(* C21 *)

\* a /chat/tools step leaves a session object /chat/structured made as it was
ToolsLeaveStructuredSessionAlone ==
    (lastStep.endpoint = "/chat/tools" /\ lastStep.pre.class = "ConversationState") =>
        /\ lastStep.post.collectedData = lastStep.begin.collectedData
        /\ lastStep.post.currentStep = lastStep.begin.currentStep
        /\ lastStep.post.conversationHistory = lastStep.begin.conversationHistory

\* a /chat/structured request whose Gateway call, if any, was not rejected is
\* not answered with an error
StructuredServedNormally ==
    (lastStep.endpoint = "/chat/structured" /\ lastStep.thrown = <<>>
        /\ lastStep.outcome = "respond") =>
        /\ lastStep.status = 200
        /\ "error" \notin DOMAIN lastStep.json

\* C21: the two modes are isolated from each other on a shared session
\* identifier: a tool-mode turn never changes the collectedData, cursor or history
\* structured-mode turns on the same identifier see, and a structured-mode turn on
\* an identifier first used in tool mode is served normally, not with an error.
C21_Claimed ==
    /\ ToolsLeaveStructuredSessionAlone
    /\ StructuredServedNormally

---------------------------------------------------------------------------
(* C22 *)

\* the Gateway's answer to the step just taken begins as a command and is not
\* made of exactly three parts
MalformedCommand ==
    /\ StructuredAnswered
    /\ \/ startsWith(Last(lastStep.replies), "UPDATE_DATA|")
       \/ startsWith(Last(lastStep.replies), "ADD_DATA|")
    /\ Len(split(Last(lastStep.replies), "|")) # 3

\* a malformed command is not rejected: the turn answers with the normal
\* confirmation and no error, collectedData is written under the second part
\* (when it is not in `exempt`) with the third part as the value, or undefined
\* when there is none, and what comes after the third part is in neither the
\* field nor the value
MisparsedExcept(exempt) ==
    MalformedCommand =>
        LET parts == split(Last(lastStep.replies), "|")
            field == parts[2]
            value == IF Len(parts) >= 3 THEN parts[3] ELSE Undefined
        IN
        /\ lastStep.outcome = "respond"
        /\ lastStep.status = 200
        /\ "error" \notin DOMAIN lastStep.json
        /\ Last(lastStep.post.conversationHistory) = AssistantTurn(lastStep.json.response)
        /\ field \notin exempt =>
                /\ HasKey(lastStep.post.collectedData, field)
                /\ Get(lastStep.post.collectedData, field) = value
                /\ KeySet(lastStep.post.collectedData) =
                        KeySet(lastStep.pre.collectedData) \cup {field}
        /\ \A k \in KeySet(lastStep.pre.collectedData) \ {field} :
                Get(lastStep.post.collectedData, k) = Get(lastStep.pre.collectedData, k)
        /\ Last(lastStep.replies) = "UPDATE_DATA|age" =>
                /\ field = "age" /\ value = Undefined
                /\ lastStep.json.response =
                        "Got it! I've updated your age to undefined. Your updated information is now saved."
        /\ Last(lastStep.replies) = "ADD_DATA|note|a|b" =>
                /\ field = "note" /\ value = "a"
                /\ lastStep.json.response = "Perfect! I've added note: a to your profile."

\* C22: a Gateway reply that begins with 'UPDATE_DATA|' or 'ADD_DATA|' but is not
\* made of exactly three parts is not rejected: the turn answers with the normal
\* confirmation and no error, collectedData is written under the second part with
\* the third part as the value, or undefined when there is none, and what comes
\* after the third part is in neither the field nor the value.  The reply
\* 'UPDATE_DATA|__proto__' refutes the write: collectedData is left as it was.
C22_Claimed == MisparsedExcept({})

\* what holds of every other second part
MisparsedIntoOwnKeys == MisparsedExcept({"__proto__"})

\* a command without a value has put undefined in the place of the age collected
UndefinedOverAge ==
    /\ MalformedCommand
    /\ Last(lastStep.replies) = "UPDATE_DATA|age"
    /\ Get(lastStep.pre.collectedData, "age") = "5000"
    /\ Get(lastStep.post.collectedData, "age") = Undefined
    /\ lastStep.status = 200

---------------------------------------------------------------------------
(* C23 *)

\* the history handed to the Gateway by the call request id waits for
HandedOver(id) == pending[id].call.messages

\* C23: at every Gateway invocation, on either endpoint and whatever other
\* requests of the session are in progress, the history handed over is the
\* session's whole history, it is not empty and its last turn has role user: the
\* user message just appended, or in the tool loop the tool-result turn that
\* directly follows the tool-request turn.
C23_LastTurnIsUser ==
    /\ \A id \in DOMAIN pending :
            /\ HandedOver(id) # <<>>
            /\ Last(HandedOver(id)).role = "user"
    /\ lastStep.outcome = "await" =>
            LET m == HandedOver(lastStep.req) IN
            /\ m = lastStep.post.conversationHistory
            /\ IF lastStep.replies = <<>>
               THEN Last(m) = UserTurn(lastStep.body.message)
               ELSE /\ Len(m) >= 2
                    /\ Last(m).role = "user"
                    /\ Len(Last(m).blocks) = 1
                    /\ Last(m).blocks[1].type = "tool_result"
                    /\ Last(m).blocks[1].tool_use_id = Requested(Last(lastStep.replies)).id
                    /\ m[Len(m) - 1] = BlocksTurn("assistant", Last(lastStep.replies).content)

\* the tool loop of request 1 is at its second Gateway call, and the user turn
\* of another request of the session lies between its own user turn and its
\* tool-request turn
C23_Witness ==
    /\ lastStep.endpoint = "/chat/tools"
    /\ lastStep.outcome = "await"
    /\ lastStep.req = 1
    /\ lastStep.calls = 2
    /\ 2 \in DOMAIN pending
    /\ pending[2].sessionId = lastStep.sessionId
    /\ Len(lastStep.post.conversationHistory) = OwnUserTurn + 3
    /\ lastStep.post.conversationHistory[OwnUserTurn + 1].role = "user"
    /\ Last(HandedOver(1)).blocks[1].type = "tool_result"

---------------------------------------------------------------------------
(* C24 *)

\* the step just taken is a request that went down the greeting branch
GreetingTurn == StructuredArrival /\ GreetingBranch

\* the question at the cursor as the greeting words it, null past the catalog
QuestionAt(cursor) ==
    IF cursor < Len(steps) THEN steps[cursor + 1].question ELSE "null"

\* C24: a request taken down the greeting branch (message 'start' or isInitial
\* in the fourteen-question file, empty history in the five-question file) does
\* not record its message: the cursor and collectedData are as they were, and the
\* session's history has exactly one more turn, the assistant's greeting; no
\* user turn is appended and the Gateway is not called.
C24_GreetingRecordsNothing ==
    GreetingTurn =>
        /\ lastStep.post.currentStep = lastStep.pre.currentStep
        /\ lastStep.post.collectedData = lastStep.pre.collectedData
        /\ lastStep.post.conversationHistory =
                Append(lastStep.pre.conversationHistory,
                       AssistantTurn(GreetingOf(QuestionAt(lastStep.pre.currentStep))))
        /\ Len(UserTurnsOf(lastStep.post)) = Len(UserTurnsOf(lastStep.pre))
        /\ lastStep.outcome = "respond"
        /\ lastStep.status = 200
        /\ lastStep.json.response = GreetingOf(QuestionAt(lastStep.pre.currentStep))
        /\ lastStep.calls = 0

\* an isInitial request whose message is an answer has been greeted in the
\* middle of the questionnaire
C24_Witness ==
    /\ GreetingTurn
    /\ variant = "part_000"
    /\ lastStep.body.isInitial
    /\ lastStep.body.message = "Ada"
    /\ lastStep.pre.currentStep = 2
    /\ lastStep.post.currentStep = 2
    /\ ~HasKey(lastStep.post.collectedData, "income")
    /\ Last(lastStep.post.conversationHistory) =
            AssistantTurn(GreetingOf("What is your annual income?"))

====
